---------------------------- MODULE Spec2Model ----------------------------
(***************************************************************************)
(* A model of the PR review core of pr-review-bot-mcp-server:              *)
(*   src/review_processor.py  ReviewProcessor.split_diff,                  *)
(*                            query_huggingface, parse_review_output,      *)
(*                            process_review                               *)
(*   src/main.py              the async tool handler on the event loop     *)
(*                                                                         *)
(* Text is a sequence of one-character strings.  MAX_DIFF_LENGTH and       *)
(* CHUNK_SIZE keep their names and their order (MAX_DIFF_LENGTH >          *)
(* CHUNK_SIZE) but are scaled down from 100000 and 5000 so that diffs on   *)
(* both sides of each threshold can be enumerated.                         *)
(***************************************************************************)
EXTENDS Integers, Sequences, FiniteSets

VARIABLES
    pc,                  \* position of the driver / of process_review
    diff,                \* the diff handed to split_diff / process_review
    diff_chunks,         \* split_diff's result
    text,                \* the text handed to parse_review_output
    parsed,              \* parse_review_output's result
    i,                   \* process_review: 1-based index of the chunk in hand
    all_comments,        \* process_review: running aggregate
    all_security_issues, \* process_review: running aggregate
    summary,             \* process_review: the summary string
    result,              \* what process_review returned (NoResult before/without)
    error,               \* the exception process_review raised ("none" if none)
    endpoint,            \* the remote endpoint's behaviour for the pending call
    posts,               \* requests.post calls made by the pending query_huggingface
    response,            \* value returned by the last query_huggingface
    calls,               \* history: the remote calls issued, in order
    handled,             \* history: per chunk handled, the generated text used
    splits,              \* history: number of split_diff invocations
    running,             \* event loop: the review holding the loop thread (0: idle)
    rpc,                 \* event loop: position of each in-flight review
    rchunk               \* event loop: chunk index of each in-flight review

vars == <<pc, diff, diff_chunks, text, parsed, i, all_comments,
          all_security_issues, summary, result, error, endpoint, posts,
          response, calls, handled, splits, running, rpc, rchunk>>

-----------------------------------------------------------------------------
(* Bounds of the model *)

MaxDiffLen == 6      \* longest diff enumerated for split_diff
MaxLines == 2        \* most lines in a text enumerated for parse_review_output
MaxFailures == 3     \* most consecutive transport failures of the endpoint
MaxReviewChunks == 3 \* most chunks a review of the loop model walks through

(* Program constants (scaled, see the header) *)

MAX_DIFF_LENGTH == 4
CHUNK_SIZE == 3

(* The retry count the specification configures for the remote invoker
   (default 3).  The source has no such setting. *)
RETRY_COUNT == 3

-----------------------------------------------------------------------------
(* Text helpers *)

NL == "\n"

Whitespace == {" ", "\t", "\r", NL}

Digits == {"0", "1", "2"}

DigitVal(c) == CASE c = "0" -> 0 [] c = "1" -> 1 [] c = "2" -> 2 [] OTHER -> 0

\* s[a..b], empty when a > b
Slice(s, a, b) == IF a > b THEN <<>> ELSE SubSeq(s, a, b)

\* position of the first occurrence of c in s, 0 when there is none
RECURSIVE IndexOfFrom(_, _, _)
IndexOfFrom(s, c, k) ==
    IF k > Len(s) THEN 0
    ELSE IF s[k] = c THEN k
    ELSE IndexOfFrom(s, c, k + 1)

IndexOf(s, c) == IndexOfFrom(s, c, 1)

\* str.split(sep): the pieces between the separators, one more than separators
RECURSIVE StrSplit(_, _)
StrSplit(s, sep) ==
    LET p == IndexOf(s, sep) IN
    IF p = 0 THEN <<s>>
    ELSE <<Slice(s, 1, p - 1)>> \o StrSplit(Slice(s, p + 1, Len(s)), sep)

RECURSIVE LStrip(_)
LStrip(s) ==
    IF s = <<>> THEN <<>>
    ELSE IF s[1] \in Whitespace THEN LStrip(Tail(s))
    ELSE s

RECURSIVE RStrip(_)
RStrip(s) ==
    IF s = <<>> THEN <<>>
    ELSE IF s[Len(s)] \in Whitespace THEN RStrip(Slice(s, 1, Len(s) - 1))
    ELSE s

\* str.strip()
Strip(s) == RStrip(LStrip(s))

\* concatenation of a sequence of texts
RECURSIVE Flatten(_)
Flatten(ss) == IF ss = <<>> THEN <<>> ELSE Head(ss) \o Flatten(Tail(ss))

\* all sequences over S of length at most n
RECURSIVE SeqsUpTo(_, _)
SeqsUpTo(S, n) ==
    IF n = 0 THEN {<<>>}
    ELSE LET shorter == SeqsUpTo(S, n - 1) IN
         shorter \cup {Append(s, c) : s \in shorter, c \in S}

-----------------------------------------------------------------------------
(* ReviewProcessor.split_diff *)

\* the for loop over diff.split('\n') and the trailing "if current_chunk"
RECURSIVE SplitLoop(_, _, _, _)
SplitLoop(lines, k, chunks, current_chunk) ==
    IF k > Len(lines)
    THEN IF current_chunk # <<>> THEN Append(chunks, current_chunk) ELSE chunks
    ELSE LET line == lines[k]
             closes == Len(current_chunk) + Len(line) + 1 > CHUNK_SIZE
             chunks1 == IF closes THEN Append(chunks, current_chunk) ELSE chunks
             current1 == IF closes THEN <<>> ELSE current_chunk
         IN SplitLoop(lines, k + 1, chunks1, current1 \o line \o <<NL>>)

split_diff(d) ==
    IF Len(d) <= MAX_DIFF_LENGTH THEN <<d>>
    ELSE SplitLoop(StrSplit(d, NL), 1, <<>>, <<>>)

-----------------------------------------------------------------------------
(* ReviewProcessor.parse_review_output *)

SECURITY_PREFIX == <<"S", "E", "C", "U", "R", "I", "T", "Y", ":">>

NoMatch == [matched |-> FALSE, file |-> <<>>, line_num |-> <<>>, rest |-> <<>>]

AllDigits(s) == \A k \in 1..Len(s) : s[k] \in Digits

\* int() of a string of decimal digits
RECURSIVE IntOf(_)
IntOf(ds) ==
    IF ds = <<>> THEN 0
    ELSE 10 * IntOf(Slice(ds, 1, Len(ds) - 1)) + DigitVal(ds[Len(ds)])

\* re.match(r"([^:]+):(\d+):(.+)", s): anchored at the start of s only.  [^:]+
\* cannot cross a colon, so group 1 ends at the first colon and is non-empty;
\* \d+ must reach the second colon, so the whole second field is digits,
\* untrimmed and non-empty; .+ takes the rest of the line, at least one
\* character (a line holds no newline).
MatchTriple(s) ==
    LET p1 == IndexOf(s, ":")
        s2 == Slice(s, p1 + 1, Len(s))
        p2 == IndexOf(s2, ":")
        f2 == Slice(s2, 1, p2 - 1)
        s3 == Slice(s2, p2 + 1, Len(s2))
    IN IF /\ p1 > 1
          /\ p2 > 1
          /\ AllDigits(f2)
          /\ Len(s3) >= 1
       THEN [matched |-> TRUE, file |-> Slice(s, 1, p1 - 1), line_num |-> f2,
             rest |-> s3]
       ELSE NoMatch

HasPrefix(s, p) == Len(s) >= Len(p) /\ SubSeq(s, 1, Len(p)) = p

\* re.match(r"SECURITY:([^:]+):(\d+):(.+)", line)
security_match(line) ==
    IF HasPrefix(line, SECURITY_PREFIX)
    THEN MatchTriple(Slice(line, Len(SECURITY_PREFIX) + 1, Len(line)))
    ELSE NoMatch

\* re.match(r"([^:]+):(\d+):(.+)", line)
comment_match(line) == MatchTriple(line)

\* the dict appended for a matching line: fields stripped, line number int()
SecurityRecord(m) ==
    [file |-> Strip(m.file), line |-> IntOf(Strip(m.line_num)),
     issue |-> Strip(m.rest)]

CommentRecord(m) ==
    [file |-> Strip(m.file), line |-> IntOf(Strip(m.line_num)),
     comment |-> Strip(m.rest)]

\* the for loop over the lines: security first, then comment, else dropped
RECURSIVE ParseLoop(_, _, _, _)
ParseLoop(lines, k, comments, security_issues) ==
    IF k > Len(lines)
    THEN [comments |-> comments, security_issues |-> security_issues]
    ELSE LET line == Strip(lines[k])
             sm == security_match(line)
             cm == comment_match(line)
         IN IF sm.matched
            THEN ParseLoop(lines, k + 1, comments,
                           Append(security_issues, SecurityRecord(sm)))
            ELSE IF cm.matched
            THEN ParseLoop(lines, k + 1, Append(comments, CommentRecord(cm)),
                           security_issues)
            ELSE ParseLoop(lines, k + 1, comments, security_issues)

parse_review_output(t) == ParseLoop(StrSplit(Strip(t), NL), 1, <<>>, <<>>)

-----------------------------------------------------------------------------
(* Inputs *)

\* the diffs enumerated for split_diff
DiffAlphabet == {"a", "b", NL}

Diffs == SeqsUpTo(DiffAlphabet, MaxDiffLen)

\* lines of model output, one per case of the parser's grammar
LineComment == <<"a", ":", "1", ":", "x">>
LineSecurity == <<"S", "E", "C", "U", "R", "I", "T", "Y", ":", "a", ":", "2", ":", "x">>
LineSpacedNumber == <<"a", ":", " ", "1", ":", "x">>
LineEmptyRemainder == <<"a", ":", "1", ":">>
LineZero == <<"a", ":", "0", ":", "x">>
LineJunk == <<"a", "x">>
LineNotNumber == <<"a", ":", "x", ":", "1">>
LineNoFile == <<":", "1", ":", "x">>
LinePadded == <<" ", "a", ":", "1", "2", ":", " ", "x", ":", "a", " ">>
LineSecurityWord == <<"S", "E", "C", "U", "R", "I", "T", "Y", ":", "1", ":", "x">>
LineEmpty == <<>>
LineSecurityPadded == <<"S", "E", "C", "U", "R", "I", "T", "Y", ":", " ", "a", " ", ":", "2", ":", " ", "x">>
LineSecurityZero == <<"S", "E", "C", "U", "R", "I", "T", "Y", ":", "a", ":", "0", ":", "x">>

ParseLines == {LineComment, LineSecurity, LineSpacedNumber, LineEmptyRemainder, LineZero, LineJunk, LineNotNumber, LineNoFile, LinePadded, LineSecurityWord, LineEmpty, LineSecurityPadded, LineSecurityZero}

\* "\n".join(ls)
RECURSIVE JoinNL(_)
JoinNL(ls) ==
    IF ls = <<>> THEN <<>>
    ELSE IF Len(ls) = 1 THEN ls[1]
    ELSE ls[1] \o <<NL>> \o JoinNL(Tail(ls))

\* the texts enumerated for parse_review_output: 1..MaxLines catalogue lines
Texts == {JoinNL(ls) : ls \in SeqsUpTo(ParseLines, MaxLines) \ {<<>>}}

\* generated texts the endpoint may return during a review
GenComment == LineComment
GenMixed == <<"S", "E", "C", "U", "R", "I", "T", "Y", ":", "a", ":", "2", ":", "x", NL, "x", ":", "2", ":", "a", NL>>
GenJunk == LineJunk

GenTexts == {GenComment, GenMixed, GenJunk}

\* the diffs reviewed: empty, below the threshold, three chunks, and a long
\* first line
ReviewDiffs == {<<>>, <<"a", NL, "b">>, <<"a", "a", NL, "b", NL, "a">>, <<"a", "a", "a", "a", "a">>}

-----------------------------------------------------------------------------
(* Responses of the remote endpoint.  A JSON value is a record: kind, the
   items of a list, the keys of an object, the value under "generated_text",
   the value of a number (the length of a string), and whether a string
   contains "generated_text" as a substring. *)

Json(kind, items, keys, gen, n, sub) ==
    [kind |-> kind, items |-> items, keys |-> keys, gen |-> gen, n |-> n,
     sub |-> sub]

JList(items) == Json("list", items, {}, <<>>, 0, FALSE)
JObject(keys, gen) == Json("dict", <<>>, keys, gen, 0, FALSE)
JInt(n) == Json("int", <<>>, {}, <<>>, n, FALSE)
JStr(n, sub) == Json("str", <<>>, {}, <<>>, n, sub)
JNull == Json("null", <<>>, {}, <<>>, 0, FALSE)

Candidate(t) == JObject({"generated_text"}, t)

Bodies ==
    {JList(<<>>), JObject({}, <<>>), JObject({"error"}, <<>>),
     JList(<<JObject({}, <<>>)>>), JList(<<JObject({"other"}, <<>>)>>),
     JList(<<JInt(1)>>), JList(<<JInt(0)>>), JList(<<JNull>>),
     JList(<<JStr(1, FALSE)>>), JList(<<JStr(14, TRUE)>>),
     JList(<<JObject({"other"}, <<>>), Candidate(GenComment)>>)}
    \cup {JList(<<Candidate(t)>>) : t \in GenTexts}

\* what the endpoint does with one call: `failures` transport failures in a
\* row, then an answer with a status and a body
Endpoints ==
    [failures : 0..MaxFailures, status_ok : BOOLEAN, body : Bodies]

NoResponse == JNull

\* bool(v)
Truthy(v) ==
    CASE v.kind = "list" -> v.items # <<>>
      [] v.kind = "dict" -> v.keys # {}
      [] v.kind = "int"  -> v.n # 0
      [] v.kind = "str"  -> v.n # 0
      [] OTHER           -> FALSE

\* "generated_text" in v
ContainsKey(v) ==
    CASE v.kind = "dict" -> IF "generated_text" \in v.keys THEN "yes" ELSE "no"
      [] v.kind = "str"  -> IF v.sub THEN "yes" ELSE "no"
      [] v.kind = "list" -> "no"
      [] OTHER           -> "TypeError"

\* r and isinstance(r, list) and r[0] and "generated_text" in r[0]
has_generated_text(r) ==
    IF ~Truthy(r) THEN "no"
    ELSE IF r.kind # "list" THEN "no"
    ELSE IF ~Truthy(r.items[1]) THEN "no"
    ELSE ContainsKey(r.items[1])

\* r[0]["generated_text"]: a string cannot be indexed by a string
generated_text(r) ==
    IF r.items[1].kind = "dict"
    THEN [raised |-> FALSE, text |-> r.items[1].gen]
    ELSE [raised |-> TRUE, text |-> <<>>]

-----------------------------------------------------------------------------
(* ReviewProcessor.process_review and query_huggingface *)

\* "No summary generated."
NO_SUMMARY ==
    <<"N", "o", " ", "s", "u", "m", "m", "a", "r", "y",
     " ", "g", "e", "n", "e", "r", "a", "t", "e", "d", ".">>

NoResult ==
    [returned |-> FALSE, comments |-> <<>>, summary |-> <<>>,
     security_issues |-> <<>>]

NoParse == [comments |-> <<>>, security_issues |-> <<>>]

IdleEndpoint == [failures |-> 0, status_ok |-> TRUE, body |-> JList(<<>>)]

\* list.extend
ExtendFront(acc, new) == new \o acc
Extend(acc, new) == acc \o new

\* the for loop over enumerate(diff_chunks) has run out
LoopExhaustedEarly(idx, chunks) == idx >= Len(chunks)
LoopExhausted(idx, chunks) == idx > Len(chunks)

Reviewers == {1, 2}

\* the variables of the other drivers, at rest
ParserIdle == text = <<>> /\ parsed = NoParse
LoopIdle ==
    /\ running = 0
    /\ rpc = [r \in Reviewers |-> "idle"]
    /\ rchunk = [r \in Reviewers |-> 0]
ReviewIdle ==
    /\ diff_chunks = <<>>
    /\ i = 0
    /\ all_comments = <<>>
    /\ all_security_issues = <<>>
    /\ summary = <<>>
    /\ result = NoResult
    /\ error = "none"
    /\ endpoint = IdleEndpoint
    /\ posts = 0
    /\ response = NoResponse
    /\ calls = <<>>
    /\ handled = <<>>
    /\ splits = 0

parserVars == <<text, parsed>>
loopVars == <<running, rpc, rchunk>>
reviewVars == <<diff_chunks, i, all_comments, all_security_issues, summary,
                result, error, endpoint, posts, response, calls, handled,
                splits>>

Init ==
    /\ pc = "start"
    /\ diff \in ReviewDiffs
    /\ ReviewIdle
    /\ ParserIdle
    /\ LoopIdle

\* lines 171-175: the aggregates, then split_diff
Split ==
    /\ pc = "start"
    /\ diff_chunks' = split_diff(diff)
    /\ splits' = splits + 1
    /\ i' = 1
    /\ all_comments' = <<>>
    /\ all_security_issues' = <<>>
    /\ pc' = "loop"
    /\ UNCHANGED <<diff, summary, result, error, endpoint, posts, response,
                   calls, handled>>
    /\ UNCHANGED <<parserVars, loopVars>>

\* a remote call as the history records it
Call(kind, chunk) ==
    [kind |-> kind, chunk |-> chunk, handled_before |-> Len(handled),
     outcome |-> "pending"]

\* lines 181-196: the next chunk's prompt is built and query_huggingface is
\* entered; the endpoint's behaviour for this call is the environment's choice
ReviewCall ==
    /\ pc = "loop"
    /\ ~LoopExhausted(i, diff_chunks)
    /\ \E e \in Endpoints : endpoint' = e
    /\ posts' = 0
    /\ calls' = Append(calls, Call("review", i))
    /\ pc' = "review_call"
    /\ UNCHANGED <<diff, diff_chunks, i, all_comments, all_security_issues,
                   summary, result, error, response, handled, splits>>
    /\ UNCHANGED <<parserVars, loopVars>>

\* lines 208-234: after the loop the summary prompt is built from the
\* aggregates and query_huggingface is entered
SummaryCall ==
    /\ pc = "loop"
    /\ LoopExhausted(i, diff_chunks)
    /\ \E e \in Endpoints : endpoint' = e
    /\ posts' = 0
    /\ calls' = Append(calls, Call("summary", 0))
    /\ pc' = "summary_call"
    /\ UNCHANGED <<diff, diff_chunks, i, all_comments, all_security_issues,
                   summary, result, error, response, handled, splits>>
    /\ UNCHANGED <<parserVars, loopVars>>

SetOutcome(o) == [calls EXCEPT ![Len(calls)].outcome = o]

\* lines 42-52, query_huggingface: one requests.post; a transport failure
\* raises out of it, raise_for_status raises on a non-success status, and
\* otherwise the decoded body is returned.  Nothing catches either exception.
query_huggingface ==
    /\ pc \in {"review_call", "summary_call"}
    /\ posts' = posts + 1
    /\ IF posts + 1 <= endpoint.failures
       THEN /\ pc' = "raised"
            /\ error' = "TransportError"
            /\ calls' = SetOutcome("TransportError")
            /\ UNCHANGED response
       ELSE IF ~endpoint.status_ok
       THEN /\ pc' = "raised"
            /\ error' = "HTTPError"
            /\ calls' = SetOutcome("HTTPError")
            /\ UNCHANGED response
       ELSE /\ pc' = IF pc = "review_call" THEN "review_response"
                     ELSE "summary_response"
            /\ response' = endpoint.body
            /\ calls' = SetOutcome("ok")
            /\ UNCHANGED error
    /\ UNCHANGED <<diff, diff_chunks, i, all_comments, all_security_issues,
                   summary, result, endpoint, handled, splits>>
    /\ UNCHANGED <<parserVars, loopVars>>

\* what the history keeps of a handled chunk
Handled(has_text, t) == [chunk |-> i, has_text |-> has_text, text |-> t]

\* lines 198-206: the response of a chunk's call
HandleReviewResponse ==
    /\ pc = "review_response"
    /\ LET has == has_generated_text(response)
           got == generated_text(response)
           out == parse_review_output(got.text)
       IN IF has = "TypeError" \/ (has = "yes" /\ got.raised)
          THEN /\ pc' = "raised"
               /\ error' = "TypeError"
               /\ UNCHANGED <<i, all_comments, all_security_issues, handled>>
          ELSE IF has = "yes"
          THEN /\ all_comments' = Extend(all_comments, out.comments)
               /\ all_security_issues' =
                      Extend(all_security_issues, out.security_issues)
               /\ handled' = Append(handled, Handled(TRUE, got.text))
               /\ i' = i + 1
               /\ pc' = "loop"
               /\ UNCHANGED error
          ELSE /\ handled' = Append(handled, Handled(FALSE, <<>>))
               /\ i' = i + 1
               /\ pc' = "loop"
               /\ UNCHANGED <<all_comments, all_security_issues, error>>
    /\ UNCHANGED <<diff, diff_chunks, summary, result, endpoint, posts,
                   response, calls, splits>>
    /\ UNCHANGED <<parserVars, loopVars>>

\* lines 236-243: the response of the summary call, and the return
HandleSummaryResponse ==
    /\ pc = "summary_response"
    /\ LET has == has_generated_text(response)
           got == generated_text(response)
           s == IF has = "yes" THEN Strip(got.text) ELSE NO_SUMMARY
       IN IF has = "TypeError" \/ (has = "yes" /\ got.raised)
          THEN /\ pc' = "raised"
               /\ error' = "TypeError"
               /\ UNCHANGED <<summary, result>>
          ELSE /\ summary' = s
               /\ result' = [returned |-> TRUE, comments |-> all_comments,
                             summary |-> s,
                             security_issues |-> all_security_issues]
               /\ pc' = "returned"
               /\ UNCHANGED error
    /\ UNCHANGED <<diff, diff_chunks, i, all_comments, all_security_issues,
                   endpoint, posts, response, calls, handled, splits>>
    /\ UNCHANGED <<parserVars, loopVars>>

Next ==
    \/ Split
    \/ ReviewCall
    \/ SummaryCall
    \/ query_huggingface
    \/ HandleReviewResponse
    \/ HandleSummaryResponse

Spec == Init /\ [][Next]_vars

-----------------------------------------------------------------------------
(* split_diff applied to every diff of the bounded set *)

InitSplit ==
    /\ pc = "split_input"
    /\ diff \in Diffs
    /\ ReviewIdle
    /\ ParserIdle
    /\ LoopIdle

ApplySplit ==
    /\ pc = "split_input"
    /\ diff_chunks' = split_diff(diff)
    /\ pc' = "split_done"
    /\ UNCHANGED <<diff, i, all_comments, all_security_issues, summary, result,
                   error, endpoint, posts, response, calls, handled, splits>>
    /\ UNCHANGED <<parserVars, loopVars>>

NextSplit == ApplySplit

SpecSplit == InitSplit /\ [][NextSplit]_vars

-----------------------------------------------------------------------------
(* parse_review_output applied to every text of the bounded set *)

InitParse ==
    /\ pc = "parse_input"
    /\ diff = <<>>
    /\ text \in Texts
    /\ parsed = NoParse
    /\ ReviewIdle
    /\ LoopIdle

ApplyParse ==
    /\ pc = "parse_input"
    /\ parsed' = parse_review_output(text)
    /\ pc' = "parsed"
    /\ UNCHANGED <<diff, text, reviewVars, loopVars>>

NextParse == ApplyParse

SpecParse == InitParse /\ [][NextParse]_vars

-----------------------------------------------------------------------------
(* Two reviews on one event loop.  process_review is a coroutine with no
   await in its body, and query_huggingface calls requests.post directly: a
   review that has been given the loop thread keeps it, through every remote
   call, until it returns or raises. *)

InitLoop ==
    /\ pc = "serving"
    /\ diff = <<>>
    /\ ReviewIdle
    /\ ParserIdle
    /\ LoopIdle

\* the loop model leaves the variables of a single review alone
LoopFrame ==
    /\ pc = "serving"
    /\ UNCHANGED <<pc, diff, reviewVars, parserVars>>

\* a review request arrives and its coroutine is scheduled; it will make one
\* call per chunk and the summary call
Arrive(r) ==
    /\ LoopFrame
    /\ rpc[r] = "idle"
    /\ \E k \in 1..MaxReviewChunks : rchunk' = [rchunk EXCEPT ![r] = k + 1]
    /\ rpc' = [rpc EXCEPT ![r] = "ready"]
    /\ UNCHANGED running

\* the idle loop runs a ready coroutine
Dispatch(r) ==
    /\ LoopFrame
    /\ running = 0
    /\ rpc[r] = "ready"
    /\ running' = r
    /\ rpc' = [rpc EXCEPT ![r] = "running"]
    /\ UNCHANGED rchunk

\* requests.post is entered on the loop thread, which waits in it
IssueCall(r) ==
    /\ LoopFrame
    /\ running = r
    /\ rpc[r] = "running"
    /\ rchunk[r] > 0
    /\ rpc' = [rpc EXCEPT ![r] = "in_call"]
    /\ UNCHANGED <<running, rchunk>>

\* the response arrives and the same coroutine goes on
CallReturns(r) ==
    /\ LoopFrame
    /\ rpc[r] = "in_call"
    /\ rpc' = [rpc EXCEPT ![r] = "running"]
    /\ rchunk' = [rchunk EXCEPT ![r] = rchunk[r] - 1]
    /\ UNCHANGED running

\* the call raises: the coroutine ends and the loop is free again
CallRaises(r) ==
    /\ LoopFrame
    /\ rpc[r] = "in_call"
    /\ rpc' = [rpc EXCEPT ![r] = "failed"]
    /\ running' = 0
    /\ UNCHANGED rchunk

\* process_review returns: the loop is free again
Finish(r) ==
    /\ LoopFrame
    /\ running = r
    /\ rpc[r] = "running"
    /\ rchunk[r] = 0
    /\ rpc' = [rpc EXCEPT ![r] = "done"]
    /\ running' = 0
    /\ UNCHANGED rchunk

NextLoop ==
    \/ \E r \in Reviewers : Arrive(r)
    \/ \E r \in Reviewers : Dispatch(r)
    \/ \E r \in Reviewers : IssueCall(r)
    \/ \E r \in Reviewers : CallReturns(r)
    \/ \E r \in Reviewers : CallRaises(r)
    \/ \E r \in Reviewers : Finish(r)

SpecLoop == InitLoop /\ [][NextLoop]_vars

-----------------------------------------------------------------------------
(* Properties of split_diff, under SpecSplit *)

\* C1  Chunk round-trip: the chunks split_diff returns, concatenated in order
\* (each chunk carries the newline of every line boundary in it), are the
\* original diff, character for character, below and above MAX_DIFF_LENGTH.
C1_ChunkRoundTrip ==
    pc = "split_done" => Flatten(diff_chunks) = diff

\* C8  No chunk is the empty string unless the diff is empty, and then the
\* result is exactly one chunk holding the empty string.
C8_NoEmptyChunk ==
    pc = "split_done" =>
        IF diff = <<>>
        THEN diff_chunks = << <<>> >>
        ELSE \A k \in 1..Len(diff_chunks) : diff_chunks[k] # <<>>

-----------------------------------------------------------------------------
(* Properties of parse_review_output, under SpecParse *)

\* the text after the first n colon-separated parts of a line
AfterParts(line, parts, n) ==
    LET used == Len(Flatten(SubSeq(parts, 1, n))) + n
    IN Slice(line, used + 1, Len(line))

NonEmptyDigits(s) == s # <<>> /\ AllDigits(s)

\* the grammar as C3 states it, for one trimmed line
GrammarKind(line) ==
    LET parts == StrSplit(line, ":") IN
    IF /\ Len(parts) >= 4
       /\ parts[1] = SubSeq(SECURITY_PREFIX, 1, 8)
       /\ parts[2] # <<>>
       /\ NonEmptyDigits(parts[3])
       /\ AfterParts(line, parts, 3) # <<>>
    THEN "security"
    ELSE IF /\ Len(parts) >= 3
            /\ Strip(parts[1]) # <<>>
            /\ NonEmptyDigits(Strip(parts[2]))
    THEN "comment"
    ELSE "none"

RECURSIVE GrammarLoop(_, _, _, _)
GrammarLoop(lines, k, comments, security_issues) ==
    IF k > Len(lines)
    THEN [comments |-> comments, security_issues |-> security_issues]
    ELSE LET line == Strip(lines[k])
             parts == StrSplit(line, ":")
             kind == GrammarKind(line)
         IN IF kind = "security"
            THEN GrammarLoop(lines, k + 1, comments,
                     Append(security_issues,
                            [file |-> Strip(parts[2]),
                             line |-> IntOf(parts[3]),
                             issue |-> Strip(AfterParts(line, parts, 3))]))
            ELSE IF kind = "comment"
            THEN GrammarLoop(lines, k + 1,
                     Append(comments,
                            [file |-> Strip(parts[1]),
                             line |-> IntOf(Strip(parts[2])),
                             comment |-> Strip(AfterParts(line, parts, 2))]),
                     security_issues)
            ELSE GrammarLoop(lines, k + 1, comments, security_issues)

GrammarRecords(t) == GrammarLoop(StrSplit(t, NL), 1, <<>>, <<>>)

\* C3  Parser grammar and tolerance: the parser returns (it has no raising
\* path) exactly the records of the well-formed lines, in line order: a
\* SecurityIssue for SECURITY:<file>:<digits>:<issueText>, a Comment for any
\* other line with two colons, a file that is non-empty after trimming and a
\* line number that is all digits after trimming; nothing for other lines.
\* The record texts are compared trimmed, the reading that favours the claim.
C3_ParserGrammar ==
    pc = "parsed" => parsed = GrammarRecords(text)

\* C7  Every Comment and SecurityIssue emitted has a line field >= 1.
C7_PositiveLine ==
    pc = "parsed" =>
        /\ \A k \in 1..Len(parsed.comments) : parsed.comments[k].line >= 1
        /\ \A k \in 1..Len(parsed.security_issues) :
               parsed.security_issues[k].line >= 1

-----------------------------------------------------------------------------
(* Properties of process_review and query_huggingface, under Spec *)

LastCall == calls[Len(calls)]

CallFinished == calls # <<>> /\ LastCall.outcome # "pending"

\* C2  Retry bound: an endpoint that fails at transport level RETRY_COUNT - 1
\* times and then answers makes query_huggingface return that answer after
\* exactly RETRY_COUNT posts; RETRY_COUNT failures in a row make it raise the
\* transport error after exactly RETRY_COUNT posts.
C2_RetryBound ==
    /\ (CallFinished /\ endpoint.failures = RETRY_COUNT - 1
            /\ endpoint.status_ok)
           => (LastCall.outcome = "ok" /\ posts = RETRY_COUNT)
    /\ (CallFinished /\ endpoint.failures >= RETRY_COUNT)
           => (LastCall.outcome = "TransportError" /\ posts = RETRY_COUNT)

\* a response with at least one candidate that has a generated-text field
HasCandidate(r) ==
    /\ r.kind = "list"
    /\ \E k \in 1..Len(r.items) :
           r.items[k].kind = "dict" /\ "generated_text" \in r.items[k].keys

FirstCandidateText(r) ==
    LET k == CHOOSE n \in 1..Len(r.items) :
                 /\ r.items[n].kind = "dict"
                 /\ "generated_text" \in r.items[n].keys
                 /\ \A m \in 1..(n - 1) :
                        ~(r.items[m].kind = "dict"
                          /\ "generated_text" \in r.items[m].keys)
    IN r.items[k].gen

\* C4  A response without usable generated text is never fatal: a chunk's
\* call then adds no record and the loop moves to the next chunk, the summary
\* call then yields the sentinel; a response with a candidate that has
\* generated text is parsed and its records are appended.
C4_MissingGenerationNotFatal ==
    [][ /\ (pc = "review_response" /\ ~HasCandidate(response))
            => /\ pc' = "loop"
               /\ i' = i + 1
               /\ all_comments' = all_comments
               /\ all_security_issues' = all_security_issues
        /\ (pc = "summary_response" /\ ~HasCandidate(response))
            => /\ pc' = "returned"
               /\ result'.returned
               /\ result'.summary = NO_SUMMARY
        /\ (pc = "review_response" /\ HasCandidate(response))
            => LET out == parse_review_output(FirstCandidateText(response))
               IN /\ pc' = "loop"
                  /\ all_comments' = all_comments \o out.comments
                  /\ all_security_issues' =
                         all_security_issues \o out.security_issues
      ]_vars

RemoteFailed(k) == calls[k].outcome \in {"TransportError", "HTTPError"}

\* C5  No partial success: a remote call that fails makes process_review
\* fail with that error, return nothing and issue no further call; otherwise
\* process_review ends by returning one complete three-part result.
C5_NoPartialSuccess ==
    /\ \A k \in 1..Len(calls) :
           RemoteFailed(k) =>
               /\ k = Len(calls)
               /\ pc = "raised"
               /\ error = calls[k].outcome
               /\ result = NoResult
    /\ (pc \in {"returned", "raised"}
            /\ \A k \in 1..Len(calls) : ~RemoteFailed(k))
           => /\ pc = "returned"
              /\ result = [returned |-> TRUE, comments |-> all_comments,
                           summary |-> summary,
                           security_issues |-> all_security_issues]

\* the records of the handled chunks' generated texts, chunk by chunk
RECURSIVE ExpectedComments(_)
ExpectedComments(h) ==
    IF h = <<>> THEN <<>>
    ELSE (IF Head(h).has_text
          THEN parse_review_output(Head(h).text).comments ELSE <<>>)
         \o ExpectedComments(Tail(h))

RECURSIVE ExpectedSecurityIssues(_)
ExpectedSecurityIssues(h) ==
    IF h = <<>> THEN <<>>
    ELSE (IF Head(h).has_text
          THEN parse_review_output(Head(h).text).security_issues ELSE <<>>)
         \o ExpectedSecurityIssues(Tail(h))

\* C6  Result ordering: the comments of the result are the comments parsed
\* from each chunk's generated text, concatenated in chunk order, nothing
\* dropped or duplicated; likewise the security issues.
C6_ResultOrdering ==
    /\ pc \in {"loop", "review_call", "review_response", "summary_call",
               "summary_response", "returned"}
           => /\ all_comments = ExpectedComments(handled)
              /\ all_security_issues = ExpectedSecurityIssues(handled)
              /\ \A k \in 1..Len(handled) : handled[k].chunk = k
    /\ pc = "returned"
           => /\ Len(handled) = Len(diff_chunks)
              /\ result.comments = ExpectedComments(handled)
              /\ result.security_issues = ExpectedSecurityIssues(handled)

\* two chunks contributed different comments, and a security issue was found
C6_Witness ==
    /\ pc = "returned"
    /\ Len(handled) >= 2
    /\ handled[1].has_text
    /\ handled[2].has_text
    /\ Len(result.comments) >= 2
    /\ result.comments[1] # result.comments[2]
    /\ result.security_issues # <<>>

\* C9  Call ordering: the diff is split once; the k-th remote call is the
\* review call of chunk k, issued when exactly k - 1 chunks have been handled;
\* the summary call is the one call after all chunk calls; a review of k
\* chunks that returns has made exactly k + 1 calls.
C9_CallOrdering ==
    /\ splits = (IF pc = "start" THEN 0 ELSE 1)
    /\ \A k \in 1..Len(calls) :
           IF calls[k].kind = "review"
           THEN /\ k <= Len(diff_chunks)
                /\ calls[k].chunk = k
                /\ calls[k].handled_before = k - 1
           ELSE /\ k = Len(diff_chunks) + 1
                /\ calls[k].handled_before = Len(diff_chunks)
    /\ pc = "returned"
           => /\ Len(calls) = Len(diff_chunks) + 1
              /\ LastCall.kind = "summary"

\* a review of three chunks returned after four calls
C9_Witness ==
    /\ pc = "returned"
    /\ Len(diff_chunks) = 3
    /\ Len(calls) = 4
    /\ calls[3].kind = "review"
    /\ calls[4].kind = "summary"

-----------------------------------------------------------------------------
(* Property of the event loop, under SpecLoop *)

\* C10  Cooperative multiplexing: a review whose remote call is pending has
\* given up the loop thread, so another review that is ready can be run while
\* the call is outstanding.
C10_CooperativeMultiplexing ==
    \A a \in Reviewers :
        rpc[a] = "in_call" =>
            /\ running # a
            /\ \A b \in Reviewers \ {a} :
                   rpc[b] = "ready" => ENABLED Dispatch(b)

=============================================================================
